---- MODULE Spec2Model ----
(***************************************************************************)
(* Model of poop_mp.py: MockMemoryInfo, the fault-injecting replacement of *)
(* psutil.Process.memory_full_info, and the managed dict through which a   *)
(* forked monitor process reports the mock's calls to the test process.    *)
(***************************************************************************)
EXTENDS Integers, Sequences, FiniteSets, TLC

\* ------------------------------------------------------------------ bounds
\* Calls started in one behaviour of main(), over both processes.
MaxCalls == 2
\* Calls started in one behaviour of the test process driving one mock.
MaxLocalCalls == 3
\* Calls started in one behaviour of two threads sharing the mock.
MaxConcCalls == 2
\* Largest call index a fault schedule may name.
MaxIdx == 2
\* Forks of the monitor process in one behaviour.
MaxForks == 1
\* Resets and assignments of fail_when or parent_mock in one behaviour.
MaxConf == 2
\* Calls started in one behaviour of the test process driving two mocks.
MaxPairCalls == 2

\* --------------------------------------------------------------- constants
\* Python's None, as the value of a field or of a reference.
None == -1
\* The value written to the target attribute on calls outside fail_when.
GOOD == 123456789
\* A key the managed dict does not hold.
Absent == -2
\* The managed dict of main(), as the value of shared_data.
SharedData == 1
\* A configured parent_mock.
Resolver == 1

Procs == {"parent", "child"}
\* Mock 1 is main()'s shared_mock; mock 2 is another instance.
Proxies == {1, 2}
Threads == {1, 2}
\* List objects that can be a fail_when: 0 is the default argument's list,
\* p is the list last assigned to mock p.
DefaultList == 0
ListIds == {DefaultList} \cup Proxies
Schedules == SUBSET (1..MaxIdx)
AttrNames == {"uss", "rss"}

NoRec == [rss |-> None, uss |-> None]
Ok(r) == [exc |-> "", rec |-> r]
Raise(e) == [exc |-> e, rec |-> NoRec]

\* How a call reaches the mock, and with how many positional arguments.
CallShapes ==
    { [entry |-> "call", nargs |-> 0], [entry |-> "call", nargs |-> 1],
      [entry |-> "bind", nargs |-> 1], [entry |-> "get_memory", nargs |-> 1] }

VARIABLES
    objs,       \* objs[proc][p]: the attributes of mock p in process proc
    lists,      \* lists[proc][id]: the contents of each fail_when list object
    chan,       \* the manager's dict: 'call_count' and 'mock_returns'
    mgr,        \* the SyncManager process: "off", "up" or "down"
    child,      \* the forked monitor process: "none", "run" or "dead"
    pc,         \* pc[proc][t]: where thread t is inside a call of a mock
    frame,      \* frame[proc][t]: the locals of that call
    returned,   \* returned[proc][p]: history of the finished calls of this run
    mirror,     \* mirror[proc][p]: the dict got every record of this mock's run, and no other
    steady,     \* steady[proc][p]: fail_when has held one value since this run's first call
    started,    \* calls started so far
    confs,      \* resets and attribute assignments so far
    forks       \* forks so far

vars == <<objs, lists, chan, mgr, child, pc, frame, returned, mirror,
          steady, started, confs, forks>>

\* ------------------------------------------------------------ the mock object
NoObj == [made |-> FALSE]

\* Mock.reset_mock(): the call bookkeeping of unittest.mock.
reset_mock(o) == [o EXCEPT !.call_count = 0, !.call_args_list = <<>>]

\* Buggy variant of reset: mock_returns is not emptied.
resetKeepsLog(o) == reset_mock(o)

\* Buggy variant of reset: the attributes __init__ sets after it are reset too.
resetUnbinds(o) ==
    [reset_mock(o) EXCEPT !.mock_returns = <<>>, !.shared_data = None, !.parent_mock = None]

\* MockMemoryInfo.reset
reset(o) == [reset_mock(o) EXCEPT !.mock_returns = <<>>]

\* MockMemoryInfo.__init__ with fail_when bound to list object fw.
MockMemoryInfo(fw, name) ==
    LET o0 == [made |-> TRUE, call_count |-> 0, call_args_list |-> <<>>,
               mock_returns |-> <<>>, fail_when |-> fw, attr_name |-> name,
               side_effect |-> "mock_mem_info", shared_data |-> Absent,
               parent_mock |-> Absent]
    IN [reset(o0) EXCEPT !.shared_data = None, !.parent_mock = None]

\* Buggy variant of Replace: every field of the copy gets the value.
ReplaceAll(minfo, name, value) == [a \in DOMAIN minfo |-> value]

\* namedtuple._replace(**{name: value})
Replace(minfo, name, value) == [minfo EXCEPT ![name] = value]

\* The real memory_full_info called with nargs positional arguments: it
\* takes exactly the subject; env is what the query does given one.
orig_mem_info(nargs, env) == IF nargs = 1 THEN env ELSE Raise("TypeError")

\* Lines 80-86: the query, retried through parent_mock on a TypeError.
\* Gives the record or the exception, and the provider's answers in order.
QueryResult(o, nargs, env1, env2) ==
    LET first == orig_mem_info(nargs, env1)
        again == orig_mem_info(nargs + 1, env2)
    IN IF first.exc # "TypeError" THEN [res |-> first, seen |-> <<first>>]
       ELSE IF o.parent_mock # None
            THEN [res |-> again, seen |-> <<first, again>>]
            ELSE [res |-> first, seen |-> <<first>>]

\* Buggy variant of PutCountValue: the counter before the call is written.
PutCountStale(o) == o.call_count - 1

\* Buggy variant of PutRecValue: the record is put at the head of the list.
PutRecAtHead(seq, minfo) == <<minfo>> \o seq

\* Buggy variant of Tagged: the schedule is read as 0-based.
TaggedZeroBased(o, fw, minfo) ==
    IF (o.call_count - 1) \in fw
    THEN Replace(minfo, o.attr_name, None)
    ELSE Replace(minfo, o.attr_name, GOOD)

\* Lines 89-92: the record derived on the call the counter now shows.
Tagged(o, fw, minfo) ==
    IF o.call_count \in fw
    THEN Replace(minfo, o.attr_name, None)
    ELSE Replace(minfo, o.attr_name, GOOD)

IdleFrame == [p |-> 0]
NewFrame(p, shape, loaded) ==
    [p |-> p, entry |-> shape.entry, nargs |-> shape.nargs, loaded |-> loaded,
     minfo |-> NoRec, seen |-> <<>>]

\* A process runs when it exists; the test process waits while the monitor
\* process it forked runs.
Active(proc) == IF proc = "child" THEN child = "run" ELSE child # "run"
Idle(proc) == \A t \in Threads : pc[proc][t] = "idle"

\* The fail_when list of mock p as process proc sees it.
FailWhen(proc, p) == lists[proc][objs[proc][p].fail_when]

\* ------------------------------------------------------------------- Init
\* Everything but the mocks and the manager, before anything has run.
Start ==
    /\ chan = [call_count |-> Absent, mock_returns |-> <<>>]
    /\ child = "none"
    /\ pc = [proc \in Procs |-> [t \in Threads |-> "idle"]]
    /\ frame = [proc \in Procs |-> [t \in Threads |-> IdleFrame]]
    /\ returned = [proc \in Procs |-> [p \in Proxies |-> <<>>]]
    /\ steady = [proc \in Procs |-> [p \in Proxies |-> TRUE]]
    /\ started = 0
    /\ confs = 0
    /\ forks = 0

\* main() lines 207-232 and the test's line 169: shared_mock is built with
\* the default arguments, the manager started, the dict created with the one
\* key 'mock_returns' (an empty managed list) and assigned to
\* shared_mock.shared_data; the mock is reset and given the test's schedule.
main(when) ==
    [reset([MockMemoryInfo(DefaultList, "uss") EXCEPT !.shared_data = SharedData])
        EXCEPT !.fail_when = 1]

Init ==
    /\ Start
    /\ \E when \in Schedules :
          /\ objs = [proc \in Procs |->
                       [p \in Proxies |->
                          IF proc = "parent" /\ p = 1 THEN main(when) ELSE NoObj]]
          /\ lists = [proc \in Procs |->
                        [id \in ListIds |-> IF id = DefaultList THEN {1}
                                            ELSE IF proc = "parent" /\ id = 1 THEN when
                                            ELSE {}]]
    /\ mgr = "up"
    /\ mirror = [proc \in Procs |-> [p \in Proxies |-> proc = "parent" /\ p = 1]]

\* ------------------------------------------------- operations of the test
\* MockMemoryInfo(orig_mem_info, fail_when, name): a second instance, with
\* the default fail_when (given = FALSE) or a list of its own.
Construct(p, given, S, name) ==
    /\ Active("parent") /\ Idle("parent")
    /\ ~objs["parent"][p].made
    /\ objs' = [objs EXCEPT !["parent"][p] =
                  MockMemoryInfo(IF given THEN p ELSE DefaultList, name)]
    /\ lists' = IF given THEN [lists EXCEPT !["parent"][p] = S] ELSE lists
    /\ UNCHANGED <<chan, mgr, child, pc, frame, returned, mirror, steady, started, confs, forks>>

\* mock.reset()
Reset(p) ==
    /\ Active("parent") /\ Idle("parent")
    /\ objs["parent"][p].made
    /\ confs < MaxConf
    /\ confs' = confs + 1
    /\ objs' = [objs EXCEPT !["parent"][p] = reset(@)]
    /\ returned' = [returned EXCEPT !["parent"][p] = <<>>]
    /\ mirror' = [mirror EXCEPT !["parent"][p] = @ /\ chan.mock_returns = <<>>]
    /\ steady' = [steady EXCEPT !["parent"][p] = TRUE]
    /\ UNCHANGED <<lists, chan, mgr, child, pc, frame, started, forks>>

\* mock.fail_when = S: a new list object.
SetFailWhen(p, S) ==
    /\ Active("parent") /\ Idle("parent")
    /\ objs["parent"][p].made
    /\ S # FailWhen("parent", p)
    /\ confs < MaxConf
    /\ confs' = confs + 1
    /\ objs' = [objs EXCEPT !["parent"][p].fail_when = p]
    /\ lists' = [lists EXCEPT !["parent"][p] = S]
    /\ steady' = [steady EXCEPT !["parent"][p] = @ /\ objs["parent"][p].call_count = 0]
    /\ UNCHANGED <<chan, mgr, child, pc, frame, returned, mirror, started, forks>>

\* mock.fail_when.append(i): the list object fail_when refers to is changed
\* in place, for every mock that refers to it.
AddFailWhen(p, i) ==
    /\ Active("parent") /\ Idle("parent")
    /\ objs["parent"][p].made
    /\ i \notin FailWhen("parent", p)
    /\ confs < MaxConf
    /\ confs' = confs + 1
    /\ lists' = [lists EXCEPT !["parent"][objs["parent"][p].fail_when] = @ \cup {i}]
    /\ steady' = [steady EXCEPT !["parent"] =
                    [q \in Proxies |->
                       IF objs["parent"][q].made
                          /\ objs["parent"][q].fail_when = objs["parent"][p].fail_when
                       THEN steady["parent"][q] /\ objs["parent"][q].call_count = 0
                       ELSE steady["parent"][q]]]
    /\ UNCHANGED <<objs, chan, mgr, child, pc, frame, returned, mirror, started, forks>>

\* mock.parent_mock = lambda: real_proc
SetParentMock(p) ==
    /\ Active("parent") /\ Idle("parent")
    /\ objs["parent"][p].made
    /\ objs["parent"][p].parent_mock = None
    /\ confs < MaxConf
    /\ confs' = confs + 1
    /\ objs' = [objs EXCEPT !["parent"][p].parent_mock = Resolver]
    /\ UNCHANGED <<lists, chan, mgr, child, pc, frame, returned, mirror, steady, started, forks>>

\* ------------------------------------------------------ a call of the mock
\* wrap_get_memory: what mock_get_memory hands to the monitor, the 'uss'
\* attribute of the record the mock returned.
memory_metric == "uss"

\* Buggy variant of mock_get_memory: another attribute of the record is read.
mock_get_memory_rss(ret) == ret["rss"]

mock_get_memory(ret) == ret[memory_metric]

\* What the caller of the entry point gets: the exception, or the record
\* (through bind() or a direct call), or its metric (through _get_memory).
CallerGets(entry, exc, minfo) ==
    [exc |-> exc,
     rec |-> IF exc = "" THEN minfo ELSE NoRec,
     mem |-> IF exc = "" /\ entry = "get_memory" THEN mock_get_memory(minfo) ELSE Absent]

\* The call of thread t ends: the caller gets the record or the exception.
\* io tells what became of the writes to the dict: "none" (no dict, or the
\* call left before them), "ok", "lost" (a write raised) or "unread" (both
\* were made and the read for the log line raised).
Finish(proc, t, exc, io) ==
    LET f == frame[proc][t]
    IN /\ pc' = [pc EXCEPT ![proc][t] = "idle"]
       /\ frame' = [frame EXCEPT ![proc][t] = IdleFrame]
       /\ returned' = [returned EXCEPT ![proc][f.p] = Append(@,
                          [seen |-> f.seen, io |-> io,
                           out |-> CallerGets(f.entry, exc, f.minfo)])]

\* Mock.__call__, first half of self.call_count += 1: the counter is read.
Call(proc, t, p, shape) ==
    /\ Active(proc)
    /\ pc[proc][t] = "idle"
    /\ objs[proc][p].made
    /\ started' = started + 1
    /\ pc' = [pc EXCEPT ![proc][t] = "incr"]
    /\ frame' = [frame EXCEPT ![proc][t] = NewFrame(p, shape, objs[proc][p].call_count)]
    /\ UNCHANGED <<objs, lists, chan, mgr, child, returned, mirror, steady, confs, forks>>

\* Buggy variant of Incremented: the call is recorded but not counted, as
\* when the entry point runs side_effect itself.
IncrementedUncounted(o, loaded, nargs) ==
    [o EXCEPT !.call_args_list = Append(@, nargs)]

\* The counter after self.call_count += 1 stored what it loaded, plus one.
Incremented(o, loaded, nargs) ==
    [o EXCEPT !.call_count = loaded + 1, !.call_args_list = Append(@, nargs)]

\* Second half of self.call_count += 1, and the call is recorded, before
\* side_effect runs.
Incr(proc, t) ==
    /\ Active(proc)
    /\ pc[proc][t] = "incr"
    /\ objs' = [objs EXCEPT ![proc][frame[proc][t].p] =
                  Incremented(@, frame[proc][t].loaded, frame[proc][t].nargs)]
    /\ pc' = [pc EXCEPT ![proc][t] = "query"]
    /\ UNCHANGED <<lists, chan, mgr, child, frame, returned, mirror, steady, started, confs, forks>>

\* mock_mem_info lines 80-86: the real query; its exception leaves the call.
Query(proc, t, env1, env2) ==
    /\ Active(proc)
    /\ pc[proc][t] = "query"
    /\ LET f == frame[proc][t]
           q == QueryResult(objs[proc][f.p], f.nargs, env1, env2)
       IN IF q.res.exc = ""
          THEN /\ frame' = [frame EXCEPT ![proc][t].minfo = q.res.rec,
                                         ![proc][t].seen = q.seen]
               /\ pc' = [pc EXCEPT ![proc][t] = "tag"]
               /\ UNCHANGED returned
          ELSE /\ pc' = [pc EXCEPT ![proc][t] = "idle"]
               /\ frame' = [frame EXCEPT ![proc][t] = IdleFrame]
               /\ returned' = [returned EXCEPT ![proc][f.p] = Append(@,
                      [seen |-> q.seen, io |-> "none",
                       out |-> CallerGets(f.entry, q.res.exc, NoRec)])]
    /\ UNCHANGED <<objs, lists, chan, mgr, child, mirror, steady, started, confs, forks>>

\* mock_mem_info lines 89-92
Tag(proc, t) ==
    /\ Active(proc)
    /\ pc[proc][t] = "tag"
    /\ LET f == frame[proc][t]
       IN frame' = [frame EXCEPT ![proc][t].minfo =
                      Tagged(objs[proc][f.p], FailWhen(proc, f.p), f.minfo)]
    /\ pc' = [pc EXCEPT ![proc][t] = "append"]
    /\ UNCHANGED <<objs, lists, chan, mgr, child, returned, mirror, steady, started, confs, forks>>

\* Buggy variant of LogRecord: the log is replaced by the new record.
LogRecordAlone(seq, minfo) == <<minfo>>

\* mock_self.mock_returns.append(minfo)
LogRecord(seq, minfo) == Append(seq, minfo)

\* mock_mem_info lines 94-95 and 101: the record is logged; without a
\* shared_data the call returns it.
AppendLocal(proc, t) ==
    /\ Active(proc)
    /\ pc[proc][t] = "append"
    /\ LET f == frame[proc][t]
       IN /\ objs' = [objs EXCEPT ![proc][f.p].mock_returns = LogRecord(@, f.minfo)]
          /\ IF objs[proc][f.p].shared_data = None
             THEN Finish(proc, t, "", "none")
             ELSE /\ pc' = [pc EXCEPT ![proc][t] = "put_count"]
                  /\ UNCHANGED <<frame, returned>>
    /\ UNCHANGED <<lists, chan, mgr, child, mirror, steady, started, confs, forks>>

\* Every other copy of a mock stops mirroring the dict when (proc, p) writes.
WriterOnly(proc, p) ==
    [pr \in Procs |-> [q \in Proxies |-> mirror[pr][q] /\ pr = proc /\ q = p]]

\* shared_data['call_count'] = mock_self.call_count
PutCountValue(o) == o.call_count

\* mock_mem_info line 96; a dead manager makes the dict proxy raise.
PutCount(proc, t) ==
    /\ Active(proc)
    /\ pc[proc][t] = "put_count"
    /\ LET f == frame[proc][t]
       IN IF mgr = "up"
          THEN /\ chan' = [chan EXCEPT !.call_count = PutCountValue(objs[proc][f.p])]
               /\ mirror' = WriterOnly(proc, f.p)
               /\ pc' = [pc EXCEPT ![proc][t] = "put_rec"]
               /\ UNCHANGED <<frame, returned>>
          ELSE /\ Finish(proc, t, "ConnectionError", "lost")
               /\ UNCHANGED <<chan, mirror>>
    /\ UNCHANGED <<objs, lists, mgr, child, steady, started, confs, forks>>

\* shared_data['mock_returns'].append(minfo)
PutRecValue(seq, minfo) == Append(seq, minfo)

\* mock_mem_info line 97
PutRec(proc, t) ==
    /\ Active(proc)
    /\ pc[proc][t] = "put_rec"
    /\ LET f == frame[proc][t]
       IN IF mgr = "up"
          THEN /\ chan' = [chan EXCEPT !.mock_returns = PutRecValue(@, f.minfo)]
               /\ mirror' = WriterOnly(proc, f.p)
               /\ pc' = [pc EXCEPT ![proc][t] = "report"]
               /\ UNCHANGED <<frame, returned>>
          ELSE /\ Finish(proc, t, "ConnectionError", "lost")
               /\ UNCHANGED <<chan, mirror>>
    /\ UNCHANGED <<objs, lists, mgr, child, steady, started, confs, forks>>

\* mock_mem_info lines 98-101: the dict is read back for the log line, then
\* the record is returned.
Report(proc, t) ==
    /\ Active(proc)
    /\ pc[proc][t] = "report"
    /\ IF mgr = "up"
       THEN Finish(proc, t, "", "ok")
       ELSE Finish(proc, t, "ConnectionError", "unread")
    /\ UNCHANGED <<objs, lists, chan, mgr, child, mirror, steady, started, confs, forks>>

\* ------------------------------------------------------------ the processes
\* The monitor process is forked ('fork' context): it starts with a copy of
\* the test process's memory, at the place of the thread that forked.
Fork ==
    /\ child # "run" /\ Idle("parent")
    /\ forks < MaxForks
    /\ forks' = forks + 1
    /\ child' = "run"
    /\ objs' = [objs EXCEPT !["child"] = objs["parent"]]
    /\ lists' = [lists EXCEPT !["child"] = lists["parent"]]
    /\ returned' = [returned EXCEPT !["child"] = returned["parent"]]
    /\ mirror' = [mirror EXCEPT !["child"] = mirror["parent"]]
    /\ steady' = [steady EXCEPT !["child"] = steady["parent"]]
    /\ pc' = [pc EXCEPT !["child"] = pc["parent"]]
    /\ frame' = [frame EXCEPT !["child"] = frame["parent"]]
    /\ UNCHANGED <<chan, mgr, started, confs>>

\* The monitor process ends between two samples.
ChildExit ==
    /\ child = "run" /\ Idle("child")
    /\ child' = "dead"
    /\ UNCHANGED <<objs, lists, chan, mgr, pc, frame, returned, mirror, steady, started, confs, forks>>

\* The monitor process is killed inside a call of the mock.
ChildKill ==
    /\ child = "run" /\ ~Idle("child")
    /\ child' = "dead"
    /\ UNCHANGED <<objs, lists, chan, mgr, pc, frame, returned, mirror, steady, started, confs, forks>>

\* The manager process goes away.
ManagerDown ==
    /\ mgr = "up"
    /\ mgr' = "down"
    /\ UNCHANGED <<objs, lists, chan, child, pc, frame, returned, mirror, steady, started, confs, forks>>

\* One step past the query of a call by thread t of process proc.
Finishing(proc, t) ==
    \/ Tag(proc, t)
    \/ AppendLocal(proc, t)
    \/ PutCount(proc, t)
    \/ PutRec(proc, t)
    \/ Report(proc, t)

\* What one query of the real provider does when it is given one subject:
\* each sample of a live process reads a new value (the n-th call started
\* reads rss = n), or psutil raises its own error, or a TypeError.
Reading(n) == [rss |-> n, uss |-> 10 + n]
Samples == {Ok(Reading(started)), Raise("Error")}
Outcomes == Samples \cup {Raise("TypeError")}

\* main(): shared_mock alone, sampled by the monitor through the patched
\* _get_memory in the test process and in the monitor process it forks.
Next ==
    \/ Reset(1)
    \/ \E proc \in Procs :
          started < MaxCalls /\ Call(proc, 1, 1, [entry |-> "get_memory", nargs |-> 1])
    \/ \E proc \in Procs : Incr(proc, 1)
    \/ \E proc \in Procs, env \in Samples : Query(proc, 1, env, env)
    \/ \E proc \in Procs : Finishing(proc, 1)
    \/ Fork
    \/ ChildExit
    \/ ChildKill
    \/ ManagerDown

Spec == Init /\ [][Next]_vars

\* The class docstring's use: the test process builds the mock and drives it
\* itself, with no manager and no fork.
InitLocal ==
    /\ Start
    /\ objs = [proc \in Procs |->
                 [p \in Proxies |->
                    IF proc = "parent" /\ p = 1
                    THEN MockMemoryInfo(DefaultList, "uss") ELSE NoObj]]
    /\ lists = [proc \in Procs |-> [id \in ListIds |-> IF id = DefaultList THEN {1} ELSE {}]]
    /\ mgr = "off"
    /\ mirror = [proc \in Procs |-> [p \in Proxies |-> FALSE]]

NextLocal ==
    \/ Reset(1)
    \/ \E S \in Schedules : SetFailWhen(1, S)
    \/ SetParentMock(1)
    \/ \E shape \in CallShapes :
          started < MaxLocalCalls /\ Call("parent", 1, 1, shape)
    \/ Incr("parent", 1)
    \/ \E env1, env2 \in Outcomes : Query("parent", 1, env1, env2)
    \/ Tag("parent", 1)
    \/ AppendLocal("parent", 1)

SpecLocal == InitLocal /\ [][NextLocal]_vars

\* Two threads of the test process call shared_mock at once.
NextConc ==
    \/ \E t \in Threads :
          started < MaxConcCalls
          /\ Call("parent", t, 1, [entry |-> "get_memory", nargs |-> 1])
    \/ \E t \in Threads : Incr("parent", t)
    \/ \E t \in Threads, env \in Samples : Query("parent", t, env, env)
    \/ \E t \in Threads : Finishing("parent", t)

SpecConc == Init /\ [][NextConc]_vars

\* The test process builds a second mock beside the first and drives both,
\* one call at a time.
NextPair ==
    \/ \E given \in BOOLEAN, S \in Schedules : Construct(2, given, S, "uss")
    \/ \E p \in Proxies : Reset(p)
    \/ \E p \in Proxies, S \in Schedules : SetFailWhen(p, S)
    \/ \E p \in Proxies, i \in 1..MaxIdx : AddFailWhen(p, i)
    \/ \E p \in Proxies :
          started < MaxPairCalls
          /\ Call("parent", 1, p, [entry |-> "bind", nargs |-> 1])
    \/ Incr("parent", 1)
    \/ \E env \in Samples : Query("parent", 1, env, env)
    \/ Tag("parent", 1)
    \/ AppendLocal("parent", 1)

SpecPair == InitLocal /\ [][NextPair]_vars

\* The monitor, memory_profiler.memory_usage, as the test uses it: its timer
\* process samples through _get_memory until a sample raises or hands it no
\* value; either ends the run with a RuntimeError in the test process, and a
\* run that saw neither returns.
BadSample(s) == s.out.exc # "" \/ s.out.mem = None
MonitorStopped(proc) ==
    \E i \in 1..Len(returned[proc][1]) : BadSample(returned[proc][1][i])
memory_usage == IF MonitorStopped("child") THEN "RuntimeError" ELSE "return"

\* One sample of the timer process through the patched _get_memory.
MonitorSample ==
    /\ ~MonitorStopped("child")
    /\ started < MaxCalls
    /\ Call("child", 1, 1, [entry |-> "get_memory", nargs |-> 1])

\* The test of lines 168-172 inside main(): the monitor forks its timer
\* process, which alone samples, and the run ends when that process does.
NextRun ==
    \/ Reset(1)
    \/ Fork
    \/ MonitorSample
    \/ Incr("child", 1)
    \/ \E env \in Samples : Query("child", 1, env, env)
    \/ Finishing("child", 1)
    \/ ChildExit
    \/ ManagerDown

SpecRun == Init /\ [][NextRun]_vars

\* ----------------------------------------------------------------- claims
Last(h) == h[Len(h)]
AllNormal(h) == \A i \in 1..Len(h) : h[i].out.exc = ""
Made == {pp \in Procs \X Proxies : objs[pp[1]][pp[2]].made}


\* C1: while fail_when holds one value S and every call of the run returned
\* normally, the i-th record of mock_returns and the i-th record returned
\* have the target attribute None when i is in S and 123456789 when it is
\* not, i counted from 1; each finished call has its record.
C1_ScheduleDecidesRecords ==
    \A pp \in Made :
        LET o == objs[pp[1]][pp[2]]
            h == returned[pp[1]][pp[2]]
            S == FailWhen(pp[1], pp[2])
        IN steady[pp[1]][pp[2]] /\ AllNormal(h) =>
              /\ Len(o.mock_returns) >= Len(h)
              /\ Idle(pp[1]) => Len(o.mock_returns) = Len(h)
              /\ \A i \in 1..Len(o.mock_returns) :
                    o.mock_returns[i][o.attr_name] = (IF i \in S THEN None ELSE GOOD)
              /\ \A i \in 1..Len(h) : h[i].out.rec = o.mock_returns[i]

\* C1 witness: a run of normal calls with an index in the schedule and one outside.
C1_Witness ==
    LET o == objs["parent"][1]
        h == returned["parent"][1]
        S == FailWhen("parent", 1)
    IN /\ steady["parent"][1] /\ AllNormal(h) /\ Idle("parent")
       /\ \E i, j \in 1..Len(h) : i \in S /\ j \notin S
       /\ \E i \in 1..Len(h) : o.mock_returns[i].uss = None

\* C2: between resets, after k calls the counter is k and mock_returns
\* holds k records.
C2_CounterAndLogAreCallCount ==
    \A pp \in Made :
        LET o == objs[pp[1]][pp[2]]
            k == Len(returned[pp[1]][pp[2]])
        IN Idle(pp[1]) => o.call_count = k /\ Len(o.mock_returns) = k

\* C3: reset() zeroes the counter and empties mock_returns and the recorded
\* calls, leaves fail_when, attr_name, side_effect, parent_mock, shared_data,
\* the schedule lists and the dict as they were, and a second reset changes
\* nothing more.
ResetPost(o, r) ==
    /\ r.call_count = 0 /\ r.mock_returns = <<>> /\ r.call_args_list = <<>>
    /\ r.fail_when = o.fail_when /\ r.attr_name = o.attr_name
    /\ r.side_effect = o.side_effect /\ r.parent_mock = o.parent_mock
    /\ r.shared_data = o.shared_data /\ r.made

C3_ResetFrame ==
    [][Reset(1) =>
          /\ ResetPost(objs["parent"][1], objs'["parent"][1])
          /\ reset(objs'["parent"][1]) = objs'["parent"][1]
          /\ \A pm \in {None, Resolver} :
                ResetPost([objs["parent"][1] EXCEPT !.parent_mock = pm],
                          reset([objs["parent"][1] EXCEPT !.parent_mock = pm]))
          /\ lists' = lists /\ chan' = chan /\ mgr' = mgr
          /\ objs'["child"] = objs["child"]]_vars

\* C3 witness: the test process made calls that reached the dict, and a
\* reset has wiped them from the mock.
C3_Witness ==
    /\ forks = 0 /\ confs > 0 /\ Idle("parent")
    /\ chan.mock_returns # <<>>
    /\ objs["parent"][1].call_count = 0
    /\ objs["parent"][1].mock_returns = <<>>
    /\ objs["parent"][1].shared_data = SharedData

\* A mock built anew with the list and the attributes of o, after calls with
\* the arguments args[i] whose query ended as results[i]: its attributes and
\* what each call gave its caller.
RECURSIVE FreshRun(_, _, _, _)
FreshRun(o, fw, args, results) ==
    IF args = <<>>
    THEN [obj |-> [MockMemoryInfo(o.fail_when, o.attr_name) EXCEPT
                      !.shared_data = o.shared_data, !.parent_mock = o.parent_mock],
          outs |-> <<>>]
    ELSE LET n == Len(args)
             before == FreshRun(o, fw, SubSeq(args, 1, n - 1), SubSeq(results, 1, n - 1))
             o1 == Incremented(before.obj, before.obj.call_count, args[n])
             rec == Tagged(o1, fw, results[n].rec)
         IN IF results[n].exc = ""
            THEN [obj |-> [o1 EXCEPT !.mock_returns = Append(@, rec)],
                  outs |-> Append(before.outs, [exc |-> "", rec |-> rec])]
            ELSE [obj |-> o1,
                  outs |-> Append(before.outs, [exc |-> results[n].exc, rec |-> NoRec])]

\* C4: whatever ran before the last reset, a mock whose fail_when holds one
\* value S since then has the counter, the mock_returns and the recorded
\* calls, and gave its callers the records or exceptions, that a newly built
\* mock with schedule S has and gives on the same calls.
C4_ResetIsFresh ==
    \A pp \in Made :
        LET o == objs[pp[1]][pp[2]]
            h == returned[pp[1]][pp[2]]
            fresh == FreshRun(o, FailWhen(pp[1], pp[2]), o.call_args_list,
                              [i \in 1..Len(h) |-> Last(h[i].seen)])
        IN steady[pp[1]][pp[2]] /\ Idle(pp[1]) =>
              /\ o = fresh.obj
              /\ \A i \in 1..Len(h) :
                    /\ h[i].out.exc = fresh.outs[i].exc
                    /\ h[i].out.rec = fresh.outs[i].rec

\* C4 witness: calls made before a reset are gone from the mock, its
\* schedule was replaced, and the new run has a call in the schedule.
C4_Witness ==
    LET o == objs["parent"][1]
        h == returned["parent"][1]
    IN /\ steady["parent"][1] /\ Idle("parent")
       /\ started > Len(h) /\ Len(h) >= 1
       /\ o.fail_when = 1 /\ FailWhen("parent", 1) # {1}
       /\ \E i \in 1..Len(o.mock_returns) : o.mock_returns[i].uss = None

\* C8: a call whose real query raises hands the error to the caller and
\* leaves the mock as it was: the counter counts only the other calls, and
\* mock_returns is as long as the counter.
ProviderRaised(h) == {i \in 1..Len(h) : h[i].io = "none" /\ h[i].out.exc # ""}

C8_ProviderErrorLeavesNoTrace ==
    \A pp \in Made :
        LET o == objs[pp[1]][pp[2]]
            h == returned[pp[1]][pp[2]]
        IN Idle(pp[1]) =>
              /\ o.call_count = Len(h) - Cardinality(ProviderRaised(h))
              /\ Len(o.mock_returns) = o.call_count
              /\ \A i \in ProviderRaised(h) : h[i].out.rec = NoRec

IsPrefix(a, b) == Len(a) <= Len(b) /\ SubSeq(b, 1, Len(a)) = a

\* C5: when the dict was assigned to the mock while both were empty and the
\* dict has got this mock's records alone, then after a call that returned
\* normally the dict's 'call_count' is the counter of the mock in the process
\* that made the call and its 'mock_returns' is that mock's mock_returns.
C5_DictMirrorsCaller ==
    \A proc \in Procs :
        LET o == objs[proc][1]
            h == returned[proc][1]
        IN /\ o.made /\ o.shared_data = SharedData /\ mirror[proc][1]
           /\ Idle(proc) /\ h # <<>> /\ Last(h).out.exc = ""
           => /\ chan.call_count = o.call_count
              /\ chan.mock_returns = o.mock_returns

\* C5 witness: the monitor process made the second call after the test
\* process made the first, and the dict holds both.
C5_Witness ==
    /\ child = "run" /\ Idle("child") /\ mirror["child"][1]
    /\ Len(returned["child"][1]) = 2 /\ AllNormal(returned["child"][1])
    /\ Len(returned["parent"][1]) = 1
    /\ chan.call_count = 2

\* C6: once the monitor process has finished after sampling through the
\* mock, the test process finds on its own mock the counter and the
\* mock_returns that the dict holds.
C6_ParentMockHasChildCalls ==
    /\ child = "dead" /\ Idle("child") /\ mirror["child"][1]
    /\ returned["child"][1] # <<>> /\ Last(returned["child"][1]).out.exc = ""
    => /\ objs["parent"][1].call_count = chan.call_count
       /\ objs["parent"][1].mock_returns = chan.mock_returns

\* C7: a call whose write to the dict raises still returns its record.
C7_DictErrorSwallowed ==
    \A pp \in Made :
        LET h == returned[pp[1]][pp[2]]
        IN \A i \in 1..Len(h) :
              h[i].io \in {"lost", "unread"} => h[i].out.exc = ""

\* Calls of the monitor process's mock whose record reached the dict.
Written(proc) ==
    Cardinality({i \in 1..Len(returned[proc][1]) :
                    returned[proc][1][i].io \in {"ok", "unread"}})
    + (IF pc[proc][1] = "report" THEN 1 ELSE 0)

\* C9: the end of the monitor process, between calls or inside one, leaves
\* the dict and its manager as they are, and the dict's 'mock_returns' is
\* then the records of the calls whose append to it was made, in call order:
\* the first so many records of the monitor process's mock_returns.
C9_DictSurvivesChild ==
    /\ [](child = "dead" /\ mirror["child"][1] =>
             /\ IsPrefix(chan.mock_returns, objs["child"][1].mock_returns)
             /\ Len(chan.mock_returns) = Written("child"))
    /\ [][child = "run" /\ child' = "dead" => chan' = chan /\ mgr' = mgr]_vars

\* C9 witness: the monitor process was killed after it logged its record and
\* before it appended it to the dict, which holds an earlier record.
C9_Witness ==
    /\ child = "dead" /\ mirror["child"][1] /\ mgr = "up"
    /\ pc["child"][1] \in {"put_count", "put_rec"}
    /\ Len(chan.mock_returns) = 1
    /\ Len(objs["child"][1].mock_returns) = 2

\* C10: when calls of one mock overlap, the records in mock_returns and in
\* the dict are still tagged by their place: the i-th is corrupted exactly
\* when i is in fail_when, and each call counted once.
C10_OverlapKeepsOrder ==
    LET o == objs["parent"][1]
        h == returned["parent"][1]
        S == FailWhen("parent", 1)
    IN Idle("parent") /\ AllNormal(h) =>
          /\ o.call_count = Len(h)
          /\ \A i \in 1..Len(o.mock_returns) :
                o.mock_returns[i].uss = (IF i \in S THEN None ELSE GOOD)
          /\ chan.mock_returns = o.mock_returns

Min(S) == CHOOSE m \in S : \A n \in S : m <= n

\* C11: with a non-empty schedule S, the monitor gets 123456789 from
\* _get_memory on every sample before the min(S)-th and None on the
\* min(S)-th, and a run that sampled min(S) times or more ends with a
\* RuntimeError in the test process, never with a return.
C11_MonitorRaisesAtFirstFault ==
    LET h == returned["child"][1]
        S == FailWhen("child", 1)
    IN child # "none" /\ S # {} =>
          /\ \A i \in 1..Len(h) :
                h[i].out.exc = "" =>
                   /\ i < Min(S) => h[i].out.mem = GOOD
                   /\ i = Min(S) => h[i].out.mem = None
          /\ child = "dead" /\ Len(h) >= Min(S) => memory_usage = "RuntimeError"

\* C11 witness: schedule {2}, two samples: the monitor got the good value,
\* then None, and the run ended with the error.
C11_Witness ==
    LET h == returned["child"][1]
    IN /\ child = "dead" /\ FailWhen("child", 1) = {2} /\ Len(h) = 2
       /\ h[1].out.mem = GOOD /\ h[2].out.exc = "" /\ h[2].out.mem = None
       /\ memory_usage = "RuntimeError"

\* C12: a query that fails for want of the subject is made once more, with
\* the resolved subject, when parent_mock is configured, and a retry that
\* succeeds counts as one call with one record; without a parent_mock the
\* failure propagates after one query; a query given its subject is made
\* once whatever it raises, with or without a parent_mock.
C12_RetryOnlyOnAbsentSubject ==
    /\ [](Idle("parent") =>
             LET o == objs["parent"][1]
                 h == returned["parent"][1]
             IN /\ o.call_count = Len(h)
                /\ Len(o.mock_returns) = Cardinality({i \in 1..Len(h) : h[i].out.exc = ""}))
    /\ [][pc["parent"][1] = "query" /\ pc'["parent"][1] # "query" =>
             LET f == frame["parent"][1]
                 o == objs["parent"][1]
                 ended == pc'["parent"][1] = "idle"
                 seen == IF ended THEN Last(returned'["parent"][1]).seen
                                  ELSE frame'["parent"][1].seen
                 exc == IF ended THEN Last(returned'["parent"][1]).out.exc ELSE ""
             IN /\ Len(seen) = IF f.nargs = 0 /\ o.parent_mock # None THEN 2 ELSE 1
                /\ f.nargs = 0 /\ o.parent_mock = None => exc = "TypeError"
                /\ ~ended => frame'["parent"][1].minfo = Last(seen).rec]_vars

\* C13: the dict stays assigned across reset(); after the calls of the run
\* that follows the reset, the dict's 'call_count' is the mock's counter and
\* its 'mock_returns' is the mock_returns of that run, without a record of
\* the run before.
C13_DictHoldsSecondRunOnly ==
    LET o == objs["parent"][1]
        h == returned["parent"][1]
    IN /\ forks = 0 /\ confs > 0 /\ o.shared_data = SharedData
       /\ Idle("parent") /\ h # <<>> /\ AllNormal(h)
       => /\ chan.call_count = o.call_count
          /\ chan.mock_returns = o.mock_returns

\* C14: whenever another process reads the dict, also during a call of the
\* mock or after the writer was killed inside one, the 'call_count' it finds
\* recorded is the length of the 'mock_returns' it finds.
C14_DictCountIsDictLength ==
    chan.call_count # Absent => chan.call_count = Len(chan.mock_returns)

\* C15: once the dict is created and assigned to the mock, and before any
\* call, the dict's 'call_count' reads 0, the mock's counter, and its
\* 'mock_returns' is empty.
C15_DictStartsWithBothEntries ==
    started = 0 /\ objs["parent"][1].shared_data = SharedData =>
        /\ chan.call_count = 0
        /\ chan.call_count = objs["parent"][1].call_count
        /\ chan.mock_returns = <<>>

\* The fields of record got other than the target are those of record given.
SameButTarget(o, got, given) ==
    \A a \in AttrNames \ {o.attr_name} : got[a] = given[a]

\* C16: the record a call returns and logs has every field but the target
\* as the real query returned it, the target being None or 123456789; the
\* record the real query returned stays as it was; and no step of a call
\* changes fail_when, its list, attr_name or shared_data.
C16_OnlyTargetFieldChanges ==
    /\ [](\A pp \in Made :
             LET o == objs[pp[1]][pp[2]]
                 h == returned[pp[1]][pp[2]]
                 f == frame[pp[1]][1]
             IN /\ \A i \in 1..Len(h) :
                      h[i].out.exc = "" =>
                         /\ SameButTarget(o, h[i].out.rec, Last(h[i].seen).rec)
                         /\ h[i].out.rec[o.attr_name] \in {None, GOOD}
                /\ pc[pp[1]][1] \in {"append", "put_count", "put_rec", "report"} =>
                      SameButTarget(o, f.minfo, Last(f.seen).rec))
    /\ [][\A proc \in Procs :
             pc'[proc][1] # pc[proc][1] /\ forks' = forks =>
                LET o == objs[proc][1]
                    n == objs'[proc][1]
                IN /\ n.fail_when = o.fail_when /\ lists'[proc] = lists[proc]
                   /\ n.attr_name = o.attr_name /\ n.shared_data = o.shared_data
                   /\ pc[proc][1] \in {"tag", "append", "put_count", "put_rec"}
                      /\ pc'[proc][1] # "idle" =>
                         frame'[proc][1].seen = frame[proc][1].seen]_vars

\* C16 witness: a call with the dict assigned returned a record whose 'uss'
\* was overwritten and whose 'rss' is the one the real query read.
C16_Witness ==
    LET o == objs["child"][1]
        h == returned["child"][1]
    IN /\ child = "run" /\ Idle("child") /\ o.shared_data = SharedData /\ h # <<>>
       /\ Last(h).out.exc = ""
       /\ Last(h).out.rec.rss = Last(Last(h).seen).rec.rss
       /\ Last(h).out.rec.rss = started
       /\ Last(h).out.rec.uss = None
       /\ Last(Last(h).seen).rec.uss = 10 + started

\* The place in mock_returns of the record of the i-th call of history h.
Rank(h, i) == Cardinality({j \in 1..i : h[j].out.exc = ""})

C18_LogOnlyGrows ==
    [][LET o == objs["parent"][1]
           n == objs'["parent"][1]
           h == returned["parent"][1]
           g == returned'["parent"][1]
       IN ~Reset(1) =>
             /\ IsPrefix(o.mock_returns, n.mock_returns)
             /\ Len(n.mock_returns) <= Len(o.mock_returns) + 1
             /\ n.mock_returns # o.mock_returns => pc["parent"][1] = "append"
             /\ Len(g) = Len(h) + 1 /\ Last(g).out.exc = "" =>
                   n.mock_returns = Append(o.mock_returns, Last(g).out.rec)
             /\ Len(g) = Len(h) + 1 /\ Last(g).out.exc # "" =>
                   n.mock_returns = o.mock_returns
             /\ lists' # lists => n.mock_returns = o.mock_returns
             /\ pc["parent"][1] = "tag" =>
                   frame'["parent"][1].minfo.uss =
                      IF o.call_count \in FailWhen("parent", 1) THEN None ELSE GOOD]_vars

\* C18 witness: fail_when was replaced after the first call of the run: the
\* first record is still the corrupted one the old schedule made it, and
\* the second call was decided by the new schedule.
C18_Witness ==
    LET o == objs["parent"][1]
    IN /\ Idle("parent") /\ ~steady["parent"][1]
       /\ FailWhen("parent", 1) = {2}
       /\ Len(o.mock_returns) = 2 /\ o.call_count = 2
       /\ o.mock_returns[1].uss = None /\ o.mock_returns[2].uss = None

\* What belongs to mock p: its schedule, its counter and its mock_returns.
Owned(ob, ls, p) ==
    [fail_when |-> ls[ob[p].fail_when], call_count |-> ob[p].call_count,
     mock_returns |-> ob[p].mock_returns]

\* C19: of two mocks, also two built with the default fail_when, no call,
\* reset, assignment of fail_when or in-place addition to fail_when done on
\* one changes the schedule, the counter or the mock_returns of the other:
\* no step changes what belongs to both.
C19_MocksOwnTheirState ==
    [][objs["parent"][1].made /\ objs["parent"][2].made =>
          \/ Owned(objs'["parent"], lists'["parent"], 1)
                = Owned(objs["parent"], lists["parent"], 1)
          \/ Owned(objs'["parent"], lists'["parent"], 2)
                = Owned(objs["parent"], lists["parent"], 2)]_vars
====
